---- MODULE Spec2Model ----
(***************************************************************************)
(* Model of src/src/index.ts: the GitHub action that turns newly added RDS *)
(* request documents into Terraform files (config.tf, main.tf), removes    *)
(* the request documents and publishes the result as a pull request.       *)
(*                                                                         *)
(* Text is modelled line by line.  A string is a non-empty sequence of     *)
(* lines (the string split at "\n", so '' is one empty line); a line is a  *)
(* record [indent, toks]: the number of leading spaces and the pieces of   *)
(* text that follow them.  Values interpolated from a document are single  *)
(* pieces (no line break inside a value).  Numbers of a document are       *)
(* carried as their decimal text.                                          *)
(***************************************************************************)
EXTENDS Integers, Sequences, FiniteSets, TLC

(***************************************************************************)
(* Bounds of the enumeration.                                              *)
(***************************************************************************)
MaxFiles == 2       \* length of the list of changed files of a comparison
MaxInstances == 2   \* entries of a document's instances mapping
MaxRules == 1       \* elements of a document's extraSGRules
MaxCidr == 1        \* elements of a rule's cidrBlocks

(***************************************************************************)
(* Lines and strings.                                                      *)
(***************************************************************************)
Line(n, toks) == [indent |-> n, toks |-> toks]

EmptyLine == Line(0, <<>>)

\* The string '' .
EmptyString == <<EmptyLine>>

\* Array.prototype.join('\n') over strings: no element gives '', otherwise
\* the elements' lines one after another.
RECURSIVE JoinLines(_)
JoinLines(blocks) ==
  IF Len(blocks) = 0 THEN EmptyString
  ELSE IF Len(blocks) = 1 THEN blocks[1]
  ELSE blocks[1] \o JoinLines(Tail(blocks))

\* endent's treatment of an interpolated value standing alone on a line that
\* is indented by n: every line of the value is indented by n.
Endent(n, str) == [k \in 1..Len(str) |-> Line(n + str[k].indent, str[k].toks)]

\* `${v}` of a property of a document: the text of an absent property
\* (undefined) is "undefined".
Interp(obj, f) == IF f \in obj.has THEN obj[f] ELSE "undefined"

(***************************************************************************)
(* Object.entries(obj): the own properties in the order of                 *)
(* OrdinaryOwnPropertyKeys, array-index keys first in ascending numeric    *)
(* order, then the other keys in the order of their creation.  An object   *)
(* is modelled by the sequence of its entries in creation order; yaml.load *)
(* creates them in document order.                                         *)
(***************************************************************************)
\* The value of a key that is a canonical array index, -1 for any other key.
ArrayIndexOf(key) ==
  CASE key = "0" -> 0
    [] key = "1" -> 1
    [] key = "2" -> 2
    [] key = "10" -> 10
    [] OTHER -> -1

IsArrayIndex(key) == ArrayIndexOf(key) >= 0

RECURSIVE SortByIndex(_)
SortByIndex(entries) ==
  IF Len(entries) = 0 THEN <<>>
  ELSE LET m == CHOOSE k \in 1..Len(entries) :
                  \A j \in 1..Len(entries) :
                     ArrayIndexOf(entries[k].key) <= ArrayIndexOf(entries[j].key)
           rest == SelectSeq(entries, LAMBDA e : e.key # entries[m].key)
       IN  <<entries[m]>> \o SortByIndex(rest)

ObjectEntries(entries) ==
  SortByIndex(SelectSeq(entries, LAMBDA e : IsArrayIndex(e.key)))
    \o SelectSeq(entries, LAMBDA e : ~IsArrayIndex(e.key))

(***************************************************************************)
(* The templates.                                                          *)
(***************************************************************************)
configFileTemplate(doc) ==
  << Line(0, <<"terraform {">>),
     Line(2, <<"required_version = \">= 1.0.0\"">>),
     EmptyLine,
     Line(2, <<"backend \"s3\" {">>),
     Line(4, <<"bucket = \"riiid-aws-service-", Interp(doc, "env"), "-terraform-1.0.0\"">>),
     Line(4, <<"key    = \"service/", Interp(doc, "project"), "/", Interp(doc, "component"),
               "/rds_generated/tfstate\"">>),
     Line(4, <<"region = \"", Interp(doc, "region"), "\"">>),
     Line(2, <<"}">>),
     Line(0, <<"}">>),
     EmptyLine,
     Line(0, <<"module \"const\" { source = \"../../../../../const\" }">>),
     EmptyLine,
     Line(0, <<"provider \"vault\" {">>),
     Line(2, <<"address = module.const.vault.addr">>),
     Line(0, <<"}">>),
     EmptyLine,
     Line(0, <<"provider \"aws\" {">>),
     Line(2, <<"region = \"", Interp(doc, "region"), "\"">>),
     Line(0, <<"}">>),
     EmptyLine >>

instanceTemplate(key, spec) ==
  << Line(0, <<key, " = {">>),
     Line(2, <<"instance_class = \"", Interp(spec, "instanceClass"), "\"">>),
     Line(2, <<"promotion_tier = ", Interp(spec, "promotionTier")>>),
     Line(0, <<"}">>) >>

\* sgRule.cidrBlocks.map(...) throws a TypeError when cidrBlocks is undefined.
sgRuleTemplateThrows(sgRule) == "cidrBlocks" \notin sgRule.has

sgRuleTemplate(sgRule) ==
  << Line(0, <<"{">>),
     Line(2, <<"type        = \"",
               IF "type" \in sgRule.has /\ sgRule.type # "" THEN sgRule.type ELSE "ingress",
               "\"">>),
     Line(2, <<"description = \"", Interp(sgRule, "description"), "\"">>),
     Line(2, <<"from_port   = ", Interp(sgRule, "fromPort")>>),
     Line(2, <<"to_port     = ", Interp(sgRule, "toPort")>>),
     Line(2, <<"cidr_blocks = [">>) >>
  \o Endent(4, JoinLines([k \in 1..Len(sgRule.cidrBlocks) |->
                            <<Line(0, <<"\"", sgRule.cidrBlocks[k], "\",">>)>>]))
  \o << Line(2, <<"]">>),
        Line(0, <<"},">>) >>

extraSGRulesTemplateThrows(doc) ==
  /\ "extraSGRules" \in doc.has
  /\ \E k \in 1..Len(doc.extraSGRules) : sgRuleTemplateThrows(doc.extraSGRules[k])

extraSGRulesTemplateNoLengthCheck(doc) ==
  IF "extraSGRules" \notin doc.has THEN EmptyString
  ELSE << Line(0, <<"extra_sg_rules = [">>) >>
       \o Endent(2, JoinLines([k \in 1..Len(doc.extraSGRules) |->
                                 sgRuleTemplate(doc.extraSGRules[k])]))
       \o << Line(0, <<"]">>) >>

\* The argument is the document; the template reads its extraSGRules.
extraSGRulesTemplate(doc) ==
  IF "extraSGRules" \notin doc.has THEN EmptyString
  ELSE IF Len(doc.extraSGRules) = 0 THEN EmptyString
  ELSE << Line(0, <<"extra_sg_rules = [">>) >>
       \o Endent(2, JoinLines([k \in 1..Len(doc.extraSGRules) |->
                                 sgRuleTemplate(doc.extraSGRules[k])]))
       \o << Line(0, <<"]">>) >>

\* The optional part of line 115: doc.nameOverride ? `\nname_override = ...\n` : ''
nameOverridePartIfPresent(doc) ==
  IF "nameOverride" \in doc.has
    THEN << EmptyLine, Line(0, <<"name_override = ", doc.nameOverride>>), EmptyLine >>
    ELSE EmptyString

nameOverridePart(doc) ==
  IF "nameOverride" \in doc.has /\ doc.nameOverride # ""
    THEN << EmptyLine, Line(0, <<"name_override = ", doc.nameOverride>>), EmptyLine >>
    ELSE EmptyString

\* A renderer that validates: any absent required property is an error.
rdsFileTemplateThrowsStrict(doc) ==
  \/ \E f \in {"region", "project", "component", "env", "engineVersion", "instances", "vault"} :
       f \notin doc.has
  \/ \E f \in {"path", "databaseNameKey", "usernameKey", "passwordKey", "endpointOutputKey"} :
       f \notin doc.vault.has
  \/ /\ "extraSGRules" \in doc.has
     /\ \E k \in 1..Len(doc.extraSGRules) :
          {"description", "fromPort", "toPort", "cidrBlocks"} \ doc.extraSGRules[k].has # {}

\* Object.entries(undefined) and undefined.path throw a TypeError.
rdsFileTemplateThrows(doc) ==
  \/ "instances" \notin doc.has
  \/ "vault" \notin doc.has
  \/ extraSGRulesTemplateThrows(doc)

instancesPart(doc) ==
  LET entries == ObjectEntries(doc.instances)
  IN  JoinLines([k \in 1..Len(entries) |-> instanceTemplate(entries[k].key, entries[k])])

rdsFileTemplate(doc) ==
  << Line(0, <<"module \"riiid_rds\" {">>),
     Line(2, <<"source = \"../../../../../modules/aws/rds\"">>),
     EmptyLine,
     Line(2, <<"project   = \"", Interp(doc, "project"), "\"">>),
     Line(2, <<"component = \"", Interp(doc, "component"), "\"">>),
     Line(2, <<"env       = \"", Interp(doc, "env"), "\"">> ) >>
  \o Endent(2, nameOverridePart(doc))
  \o << Line(2, <<"engine_version = \"", Interp(doc, "engineVersion"), "\"">>),
        Line(2, <<>>),
        Line(2, <<"instances = {">>) >>
  \o Endent(4, instancesPart(doc))
  \o << Line(2, <<"}">>),
        EmptyLine,
        Line(2, <<"vault = {">>),
        Line(4, <<"path                = \"", Interp(doc.vault, "path"), "\"">>),
        Line(4, <<"database_name_key   = \"", Interp(doc.vault, "databaseNameKey"), "\"">>),
        Line(4, <<"username_key        = \"", Interp(doc.vault, "usernameKey"), "\"">>),
        Line(4, <<"password_key        = \"", Interp(doc.vault, "passwordKey"), "\"">>),
        Line(4, <<"endpoint_output_key = \"", Interp(doc.vault, "endpointOutputKey"), "\"">>),
        Line(2, <<"}">>) >>
  \o Endent(2, extraSGRulesTemplate(doc))
  \o << Line(0, <<"}">>),
        EmptyLine >>

(***************************************************************************)
(* Documents.  yaml.load returns whatever the document holds and nothing   *)
(* validates it, so a parsed document is a record together with the set    *)
(* `has` of the properties that are present; a property outside `has` is   *)
(* undefined whatever the record carries for it.                           *)
(***************************************************************************)
VaultKeys == {"path", "databaseNameKey", "usernameKey", "passwordKey", "endpointOutputKey"}

RequiredFields == {"region", "project", "component", "env", "engineVersion", "instances", "vault"}

RequiredRuleFields == {"description", "fromPort", "toPort", "cidrBlocks"}

InstanceKeys == {"a", "b", "1", "2"}

Instance(key) ==
  [key |-> key, has |-> {"instanceClass", "promotionTier"},
   instanceClass |-> "db.r5.large", promotionTier |-> "0"]

\* Mappings have unique keys: yaml.load rejects a duplicated key.
InstanceMaps ==
  { m \in UNION { [1..n -> {Instance(k) : k \in InstanceKeys}] : n \in 0..MaxInstances } :
      \A x, y \in 1..Len(m) : x # y => m[x].key # m[y].key }

CidrLists == UNION { [1..n -> {"10.0.0.0/8"}] : n \in 0..MaxCidr }

BaseRule ==
  [has |-> RequiredRuleFields, type |-> "", description |-> "office",
   fromPort |-> "5432", toPort |-> "5432", cidrBlocks |-> <<"10.0.0.0/8">>]

Rules ==
  { [BaseRule EXCEPT !.cidrBlocks = c] : c \in CidrLists }
    \cup { [BaseRule EXCEPT !.has = @ \cup {"type"}, !.type = "egress"] }
    \cup { [BaseRule EXCEPT !.has = @ \ {f}] : f \in RequiredRuleFields }

RuleLists == UNION { [1..n -> Rules] : n \in 0..MaxRules }

BaseVault ==
  [has |-> VaultKeys, path |-> "secret/santa", databaseNameKey |-> "db",
   usernameKey |-> "user", passwordKey |-> "pass", endpointOutputKey |-> "endpoint"]

BaseDoc ==
  [has |-> RequiredFields, region |-> "ap-northeast-2", project |-> "santa",
   component |-> "api", env |-> "dev", nameOverride |-> "", engineVersion |-> "13.4",
   instances |-> <<Instance("a")>>, vault |-> BaseVault, extraSGRules |-> <<>>]

\* The documents a run may load when the comparison reports several files.
BatchDocs ==
  { BaseDoc,
    [BaseDoc EXCEPT !.engineVersion = "14.1"],
    [BaseDoc EXCEPT !.env = "prod"],
    [BaseDoc EXCEPT !.has = @ \ {"instances"}],
    [BaseDoc EXCEPT !.has = @ \ {"region"}] }

\* The documents a run may load when the comparison reports one file.
Docs ==
  BatchDocs
    \cup { [BaseDoc EXCEPT !.instances = m] : m \in InstanceMaps }
    \cup { [BaseDoc EXCEPT !.has = @ \cup {"nameOverride"}, !.nameOverride = v] :
             v \in {"", "santa-db"} }
    \cup { [BaseDoc EXCEPT !.has = @ \cup {"extraSGRules"}, !.extraSGRules = r] :
             r \in RuleLists }
    \cup { [BaseDoc EXCEPT !.has = @ \ {f}] : f \in RequiredFields }
    \cup { [BaseDoc EXCEPT !.vault.has = @ \ {k}] : k \in VaultKeys }
    \cup { [BaseDoc EXCEPT !.has = {}] }

(***************************************************************************)
(* Paths.  A path is [dir, base, ext]: the directory as a sequence of      *)
(* components, and the file name base.ext.  A component is the sequence of *)
(* the pieces of text it is put together from.                             *)
(***************************************************************************)
Path(dir, base, ext) == [dir |-> dir, base |-> base, ext |-> ext]

NoPath == Path(<<>>, "", "")

\* filename.startsWith('infra-requests/rds/')
StartsWithIntakePrefix(filename) ==
  /\ Len(filename.dir) >= 2
  /\ filename.dir[1] = <<"infra-requests">>
  /\ filename.dir[2] = <<"rds">>

\* filename.endsWith(suffix) for a suffix '.' + ext
EndsWith(filename, ext) == filename.ext = ext

\* line 169: `./riiid-aws-service-${spec.env}/service/${spec.project}/${spec.component}/rds-generated`
targetDir(spec) ==
  << <<"riiid-aws-service-", Interp(spec, "env")>>, <<"service">>,
     <<Interp(spec, "project")>>, <<Interp(spec, "component")>>, <<"rds-generated">> >>

ConfigPath(dir) == Path(dir, "config", "tf")

MainPath(dir) == Path(dir, "main", "tf")

\* The changed files a comparison may report.
ChangedNames ==
  { Path(<< <<"infra-requests">>, <<"rds">> >>, "a", "yaml"),
    Path(<< <<"infra-requests">>, <<"rds">> >>, "b", "yml"),
    Path(<< <<"infra-requests">>, <<"rds">>, <<"team">> >>, "c", "yaml"),
    Path(<< <<"infra-requests">>, <<"rds">> >>, "d", "json"),
    Path(<< <<"infra-requests">>, <<"ec2">> >>, "e", "yaml"),
    MainPath(targetDir(BaseDoc)) }

ChangedFiles == [status : {"added", "modified"}, filename : ChangedNames]

FileLists ==
  { fs \in UNION { [1..n -> ChangedFiles] : n \in 0..MaxFiles } :
      \A x, y \in 1..Len(fs) : x # y => fs[x].filename # fs[y].filename }

\* What the working tree holds at a generated path before the run.
OldText == << Line(0, <<"# generated by an earlier run">>) >>

(***************************************************************************)
(* The run (run, lines 143-185).                                           *)
(*                                                                         *)
(* pc is the statement the run is about to execute; "resolved" (the end of *)
(* the function), "returned" (the early return of line 163) and "rejected" *)
(* (an exception left the function) end it.  log is the sequence of the    *)
(* operations the run has attempted on its collaborators, each with its    *)
(* outcome.                                                                *)
(***************************************************************************)
VARIABLES
  pc,                 \* the statement of run to execute next
  dirs,               \* the target directories that exist in the working tree
  text,               \* the generated files of the working tree: path -> text
  removed,            \* the request files removed from the working tree
  files,              \* compareData.data.files
  detectedFilePaths,  \* line 155
  i,                  \* the position of filePath in detectedFilePaths
  specs,              \* the documents loaded so far; spec is the last one
  log                 \* the operations attempted so far

vars == <<pc, dirs, text, removed, files, detectedFilePaths, i, specs, log>>

Event(op, path, n, ok, data) == [op |-> op, path |-> path, n |-> n, ok |-> ok, data |-> data]

Exec(op, ok) == Event(op, NoPath, 0, ok, EmptyString)

filePath == detectedFilePaths[i]

spec == specs[i]

\* The filter without the test of the status.
DetectedOfAnyStatus(fs) ==
  LET under == SelectSeq(fs, LAMBDA file : StartsWithIntakePrefix(file.filename))
      yamls == SelectSeq(under, LAMBDA file :
                 EndsWith(file.filename, "yaml") \/ EndsWith(file.filename, "yml"))
  IN  [k \in 1..Len(yamls) |-> yamls[k].filename]

\* lines 155-159
DetectedOf(fs) ==
  LET added == SelectSeq(fs, LAMBDA file : file.status = "added")
      under == SelectSeq(added, LAMBDA file : StartsWithIntakePrefix(file.filename))
      yamls == SelectSeq(under, LAMBDA file :
                 EndsWith(file.filename, "yaml") \/ EndsWith(file.filename, "yml"))
  IN  [k \in 1..Len(yamls) |-> yamls[k].filename]

\* A failure that is caught around the loop instead of leaving run.
RejectCaught(op) ==
  /\ pc' = IF pc \in {"load", "mkdir", "write_config", "write_main", "rm"}
             THEN "reviewers" ELSE "rejected"
  /\ log' = Append(log, op)
  /\ UNCHANGED <<dirs, text, removed, files, detectedFilePaths, i, specs>>

\* An awaited operation that failed: the exception leaves run.
Reject(op) ==
  /\ pc' = "rejected"
  /\ log' = Append(log, op)
  /\ UNCHANGED <<dirs, text, removed, files, detectedFilePaths, i, specs>>

\* An exec that succeeded.
Step(op, next) ==
  /\ pc' = next
  /\ log' = Append(log, op)
  /\ UNCHANGED <<dirs, text, removed, files, detectedFilePaths, i, specs>>

Init ==
  /\ pc = "config_name"
  /\ \/ dirs = {} /\ text = << >>
     \/ /\ dirs = {targetDir(BaseDoc)}
        /\ text = [p \in {ConfigPath(targetDir(BaseDoc)), MainPath(targetDir(BaseDoc))} |-> OldText]
  /\ removed = {}
  /\ files = <<>>
  /\ detectedFilePaths = <<>>
  /\ i = 0
  /\ specs = <<>>
  /\ log = <<>>

\* line 145
GitConfigName ==
  /\ pc = "config_name"
  /\ \/ Step(Exec("git config user.name", TRUE), "config_email")
     \/ Reject(Exec("git config user.name", FALSE))

\* line 146
GitConfigEmail ==
  /\ pc = "config_email"
  /\ \/ Step(Exec("git config user.email", TRUE), "checkout")
     \/ Reject(Exec("git config user.email", FALSE))

\* line 147
GitCheckout ==
  /\ pc = "checkout"
  /\ \/ Step(Exec("git checkout -b", TRUE), "compare")
     \/ Reject(Exec("git checkout -b", FALSE))

\* lines 148-159: the token, the comparison and the filter of its files (a
\* missing token or a failed request rejects the run).  A changed
\* file that is a generated file lies in a directory that exists.
CompareCommits ==
  /\ pc = "compare"
  /\ \/ \E fs \in FileLists :
          /\ \A k \in 1..Len(fs) : fs[k].filename.ext = "tf" => fs[k].filename.dir \in dirs
          /\ files' = fs
          /\ detectedFilePaths' = DetectedOf(fs)
          /\ pc' = "detected"
          /\ log' = Append(log, Exec("compareCommits", TRUE))
          /\ UNCHANGED <<dirs, text, removed, i, specs>>
     \/ Reject(Exec("compareCommits", FALSE))

\* The warning without the return of line 163.
NoRequestsNoReturn ==
  /\ pc = "detected"
  /\ Len(detectedFilePaths) = 0
  /\ Step(Exec("core.warning", TRUE), "reviewers")

\* lines 161-164
NoRequests ==
  /\ pc = "detected"
  /\ Len(detectedFilePaths) = 0
  /\ Step(Exec("core.warning", TRUE), "returned")

\* line 166, the first iteration
EnterLoop ==
  /\ pc = "detected"
  /\ Len(detectedFilePaths) # 0
  /\ pc' = "load"
  /\ i' = 1
  /\ UNCHANGED <<dirs, text, removed, files, detectedFilePaths, specs, log>>

\* line 168: readFile and yaml.load.  The read fails, the text is no YAML,
\* or the document is loaded as it is.
LoadSpec ==
  /\ pc = "load"
  /\ \/ \E doc \in (IF Len(files) = 1 THEN Docs ELSE BatchDocs) :
          /\ specs' = Append(specs, doc)
          /\ pc' = "mkdir"
          /\ log' = Append(log, Event("readFile", filePath, i, TRUE, EmptyString))
          /\ UNCHANGED <<dirs, text, removed, files, detectedFilePaths, i>>
     \/ Reject(Event("readFile", filePath, i, FALSE, EmptyString))

\* Both texts rendered before the directory is made: a document whose module
\* text cannot be rendered is rejected before anything is created.
EnsureDirectoryAfterRender ==
  /\ pc = "mkdir"
  /\ IF rdsFileTemplateThrows(spec)
       THEN Reject(Event("rdsFileTemplate", NoPath, i, FALSE, EmptyString))
       ELSE IF targetDir(spec) \in dirs
         THEN /\ pc' = "write_config"
              /\ UNCHANGED <<dirs, text, removed, files, detectedFilePaths, i, specs, log>>
         ELSE \/ /\ dirs' = dirs \cup {targetDir(spec)}
                 /\ pc' = "write_config"
                 /\ log' = Append(log, Event("mkdirSync", Path(targetDir(spec), "", ""), i, TRUE, EmptyString))
                 /\ UNCHANGED <<text, removed, files, detectedFilePaths, i, specs>>
              \/ Reject(Event("mkdirSync", Path(targetDir(spec), "", ""), i, FALSE, EmptyString))

\* mkdirSync without the existsSync test and without `recursive`: it fails
\* on a directory that exists.
EnsureDirectoryNoExistsCheck ==
  /\ pc = "mkdir"
  /\ IF targetDir(spec) \in dirs
       THEN Reject(Event("mkdirSync", Path(targetDir(spec), "", ""), i, FALSE, EmptyString))
       ELSE \/ /\ dirs' = dirs \cup {targetDir(spec)}
               /\ pc' = "write_config"
               /\ log' = Append(log, Event("mkdirSync", Path(targetDir(spec), "", ""), i, TRUE, EmptyString))
               /\ UNCHANGED <<text, removed, files, detectedFilePaths, i, specs>>
            \/ Reject(Event("mkdirSync", Path(targetDir(spec), "", ""), i, FALSE, EmptyString))

\* lines 169-172
EnsureDirectory ==
  /\ pc = "mkdir"
  /\ IF targetDir(spec) \in dirs
       THEN /\ pc' = "write_config"
            /\ UNCHANGED <<dirs, text, removed, files, detectedFilePaths, i, specs, log>>
       ELSE \/ /\ dirs' = dirs \cup {targetDir(spec)}
               /\ pc' = "write_config"
               /\ log' = Append(log, Event("mkdirSync", Path(targetDir(spec), "", ""), i, TRUE, EmptyString))
               /\ UNCHANGED <<text, removed, files, detectedFilePaths, i, specs>>
            \/ Reject(Event("mkdirSync", Path(targetDir(spec), "", ""), i, FALSE, EmptyString))

\* fs.promises.writeFile(path, data) that succeeds.  A writeFile that fails
\* is taken to fail before it touches the path (Reject leaves text as it is).
WriteFile(path, data, next) ==
  /\ text' = [p \in DOMAIN text \cup {path} |-> IF p = path THEN data ELSE text[p]]
  /\ pc' = next
  /\ log' = Append(log, Event("writeFile", path, i, TRUE, data))
  /\ UNCHANGED <<dirs, removed, files, detectedFilePaths, i, specs>>

\* The input removed right after config.tf is written, before main.tf.
WriteConfigThenRemove ==
  /\ pc = "write_config"
  /\ LET path == ConfigPath(targetDir(spec))
         data == configFileTemplate(spec)
     IN  \/ WriteFile(path, data, "rm")
         \/ Reject(Event("writeFile", path, i, FALSE, data))

\* line 173
WriteConfig ==
  /\ pc = "write_config"
  /\ LET path == ConfigPath(targetDir(spec))
         data == configFileTemplate(spec)
     IN  \/ WriteFile(path, data, "write_main")
         \/ Reject(Event("writeFile", path, i, FALSE, data))

\* line 174: the module text is rendered here, after config.tf is written
WriteMain ==
  /\ pc = "write_main"
  /\ IF rdsFileTemplateThrows(spec)
       THEN Reject(Event("rdsFileTemplate", NoPath, i, FALSE, EmptyString))
       ELSE LET path == MainPath(targetDir(spec))
                data == rdsFileTemplate(spec)
            IN  \/ WriteFile(path, data, "rm")
                \/ Reject(Event("writeFile", path, i, FALSE, data))

\* line 175, and line 166 for the next iteration
RemoveInput ==
  /\ pc = "rm"
  /\ \/ /\ removed' = removed \cup {filePath}
        /\ log' = Append(log, Event("rm", filePath, i, TRUE, EmptyString))
        /\ i' = i + 1
        /\ pc' = IF i < Len(detectedFilePaths) THEN "load" ELSE "reviewers"
        /\ UNCHANGED <<dirs, text, files, detectedFilePaths, specs>>
     \/ Reject(Event("rm", filePath, i, FALSE, EmptyString))

\* line 177 (getReviewers, lines 134-141)
GetReviewers ==
  /\ pc = "reviewers"
  /\ \/ Step(Exec("listCollaborators", TRUE), "git_add")
     \/ Reject(Exec("listCollaborators", FALSE))

\* line 178
GitAdd ==
  /\ pc = "git_add"
  /\ \/ Step(Exec("git add -A", TRUE), "git_commit")
     \/ Reject(Exec("git add -A", FALSE))

\* line 179
GitCommit ==
  /\ pc = "git_commit"
  /\ \/ Step(Exec("git commit", TRUE), "git_push")
     \/ Reject(Exec("git commit", FALSE))

\* line 180
GitPush ==
  /\ pc = "git_push"
  /\ \/ Step(Exec("git push", TRUE), "pr_create")
     \/ Reject(Exec("git push", FALSE))

\* lines 181-184
PrCreate ==
  /\ pc = "pr_create"
  /\ \/ Step(Exec("gh pr create", TRUE), "resolved")
     \/ Reject(Exec("gh pr create", FALSE))

Next ==
  \/ GitConfigName
  \/ GitConfigEmail
  \/ GitCheckout
  \/ CompareCommits
  \/ NoRequests
  \/ EnterLoop
  \/ LoadSpec
  \/ EnsureDirectory
  \/ WriteConfig
  \/ WriteMain
  \/ RemoveInput
  \/ GetReviewers
  \/ GitAdd
  \/ GitCommit
  \/ GitPush
  \/ PrCreate

Spec == Init /\ [][Next]_vars

(***************************************************************************)
(* Properties.                                                             *)
(***************************************************************************)
\* The positions of log that hold a successful `op` on `path` for the n-th
\* detected file.
Done(op, path, n) ==
  { a \in DOMAIN log : log[a].op = op /\ log[a].path = path /\ log[a].n = n /\ log[a].ok }

\* The positions of log at which an operation failed.
Failures == { a \in DOMAIN log : ~log[a].ok }

\* The detected files whose iteration of the loop has finished.
Finished == { k \in 1..Len(detectedFilePaths) : k < i }

PublicationOps == <<"git add -A", "git commit", "git push", "gh pr create">>

IsPublication(e) == \E j \in DOMAIN PublicationOps : e.op = PublicationOps[j]

\* C1: a detected input file is removed (or its removal attempted) only after
\* config.tf and then main.tf of its target directory were successfully
\* written with the text rendered from that file; while a write for the file
\* has failed, the file is not removed.
InputRemovedOnlyAfterBothWrites ==
  /\ \A c \in DOMAIN log :
       log[c].op = "rm" =>
         LET k == log[c].n
             d == targetDir(specs[k])
         IN  /\ log[c].path = detectedFilePaths[k]
             /\ \E a, b \in 1..(c - 1) :
                  /\ a < b
                  /\ log[a] = Event("writeFile", ConfigPath(d), k, TRUE, configFileTemplate(specs[k]))
                  /\ log[b] = Event("writeFile", MainPath(d), k, TRUE, rdsFileTemplate(specs[k]))
  /\ \A k \in 1..Len(detectedFilePaths) :
       /\ detectedFilePaths[k] \in removed => Done("rm", detectedFilePaths[k], k) # {}
       /\ (\E a \in Failures : log[a].op = "writeFile" /\ log[a].n = k)
            => detectedFilePaths[k] \notin removed

\* C1 witness: the first input file has been removed and a write for the
\* second one has failed.
InputRemovedWitness ==
  /\ Len(detectedFilePaths) >= 2
  /\ detectedFilePaths[1] \in removed
  /\ \E a \in Failures : log[a].op = "writeFile" /\ log[a].n = 2

\* C2: a failure while the i-th detected file is processed ends the run:
\* nothing is attempted after it (so no later file is read, written or
\* deleted and nothing is published), and what the earlier files left in the
\* working tree stays: their inputs removed, their directories and output
\* files present with the text last written to them.
FailureAbortsRun ==
  \A a \in Failures :
    log[a].n >= 1 =>
      /\ a = Len(log)
      /\ pc = "rejected"
      /\ i = log[a].n
      /\ \A b \in DOMAIN log : log[b].n <= i /\ ~IsPublication(log[b])
      /\ \A k \in 1..(i - 1) :
           LET d == targetDir(specs[k])
           IN  /\ detectedFilePaths[k] \in removed
               /\ d \in dirs
               /\ \A p \in {ConfigPath(d), MainPath(d)} :
                    /\ p \in DOMAIN text
                    /\ \E w \in DOMAIN log :
                         /\ log[w].op = "writeFile" /\ log[w].ok /\ log[w].path = p
                         /\ text[p] = log[w].data
                         /\ \A x \in (w + 1)..Len(log) :
                              ~(log[x].op = "writeFile" /\ log[x].ok /\ log[x].path = p)

\* C2 witness: the second detected file failed after the first was placed.
FailureAbortsWitness ==
  /\ pc = "rejected"
  /\ i = 2
  /\ Len(detectedFilePaths) >= 2
  /\ detectedFilePaths[1] \in removed

\* C6: when two detected files resolve to the same target directory, no
\* mkdir is attempted for the later one (so none fails on the existing
\* directory), and once the loop has ended no operation has failed,
\* config.tf and main.tf hold the text rendered from the last file that
\* resolved to the directory, and both inputs are removed.
CollisionOverwrites ==
  \A k, l \in 1..Len(specs) :
    (k < l /\ targetDir(specs[k]) = targetDir(specs[l])) =>
      LET d == targetDir(specs[l])
      IN  /\ \A a \in DOMAIN log : ~(log[a].op = "mkdirSync" /\ log[a].n = l)
          /\ (pc \in {"reviewers", "git_add", "git_commit", "git_push", "pr_create", "resolved"}) =>
               LET last == CHOOSE m \in l..Len(specs) :
                             /\ targetDir(specs[m]) = d
                             /\ \A m2 \in (m + 1)..Len(specs) : targetDir(specs[m2]) # d
               IN  /\ \A a \in Failures : log[a].n = 0
                   /\ text[ConfigPath(d)] = configFileTemplate(specs[last])
                   /\ text[MainPath(d)] = rdsFileTemplate(specs[last])
                   /\ {detectedFilePaths[k], detectedFilePaths[l]} \subseteq removed

\* C6 witness: the loop has ended after two files with different documents
\* resolved to one directory.
CollisionWitness ==
  /\ pc = "reviewers"
  /\ Len(detectedFilePaths) = 2
  /\ targetDir(specs[1]) = targetDir(specs[2])
  /\ rdsFileTemplate(specs[1]) # rdsFileTemplate(specs[2])
  /\ text[MainPath(targetDir(specs[2]))] = rdsFileTemplate(specs[2])

\* C10: git add, git commit, git push and gh pr create are each attempted at
\* most once and in that order, and only when at least one file was detected
\* and every detected file has had both outputs written and its input
\* removed; when no file qualifies the run ends after the warning, with the
\* branch checked out, nothing written, created or removed and nothing
\* published.
PublicationOnlyAfterAllPlaced ==
  /\ LET pubs == SelectSeq(log, IsPublication)
     IN  /\ Len(pubs) <= Len(PublicationOps)
         /\ \A j \in DOMAIN pubs : pubs[j].op = PublicationOps[j]
  /\ \A a \in DOMAIN log :
       IsPublication(log[a]) =>
         /\ Len(detectedFilePaths) > 0
         /\ \A k \in 1..Len(detectedFilePaths) :
              LET d == targetDir(specs[k])
              IN  /\ \E x \in Done("writeFile", ConfigPath(d), k) : x < a
                  /\ \E x \in Done("writeFile", MainPath(d), k) : x < a
                  /\ \E x \in Done("rm", detectedFilePaths[k], k) : x < a
                  /\ detectedFilePaths[k] \in removed
  /\ (Len(detectedFilePaths) = 0 /\ pc \notin {"config_name", "config_email", "checkout", "compare", "rejected", "detected"}) =>
       /\ pc = "returned"
       /\ log[Len(log)] = Exec("core.warning", TRUE)
       /\ \E a \in DOMAIN log : log[a] = Exec("git checkout -b", TRUE)
       /\ \A a \in DOMAIN log :
            /\ log[a].op \notin {"readFile", "mkdirSync", "writeFile", "rm"}
            /\ ~IsPublication(log[a])
       /\ removed = {}
       /\ \A p \in DOMAIN text : text[p] = OldText
  /\ pc = "returned" => Len(detectedFilePaths) = 0

\* C10 witness: the pull request was created after two files were placed.
PublicationWitness ==
  /\ pc = "resolved"
  /\ Len(detectedFilePaths) = 2
  /\ log[Len(log)] = Exec("gh pr create", TRUE)

\* C10 witness of the other case is the state the run returns in.
NoRequestsWitness ==
  /\ pc = "returned"
  /\ Len(files) > 0

\* The positions of log at which main.tf was written.
MainWrites == { a \in DOMAIN log : log[a].op = "writeFile" /\ log[a].ok /\ log[a].path.base = "main" }

StartsWithTok(l, tok) == Len(l.toks) >= 1 /\ l.toks[1] = tok

LinesWith(str, tok) == { j \in DOMAIN str : StartsWithTok(str[j], tok) }

\* The keys of the instance blocks of a module text, in the order of the text.
InstanceKeysOf(str) ==
  LET heads == SelectSeq(str, LAMBDA l : Len(l.toks) = 2 /\ l.toks[2] = " = {")
  IN  [j \in 1..Len(heads) |-> heads[j].toks[1]]

\* The keys of a document's instances, in the order of the document.
DocumentKeysOf(doc) == [j \in 1..Len(doc.instances) |-> doc.instances[j].key]

\* C3: every main.tf written holds the instance blocks in the order in which
\* the keys appear in the document it was rendered from.
InstanceOrderIsDocumentOrder ==
  \A a \in MainWrites :
    InstanceKeysOf(log[a].data) = DocumentKeysOf(specs[log[a].n])

\* Exactly one name_override line, after the env line and before the
\* engine_version line.
OneNameOverrideLineInPlace(str) ==
  /\ Cardinality(LinesWith(str, "name_override = ")) = 1
  /\ \A j \in LinesWith(str, "name_override = ") :
       /\ \E e \in LinesWith(str, "env       = \"") : e < j
       /\ \E g \in LinesWith(str, "engine_version = \"") : j < g

\* C4 as stated: no name_override line without nameOverride, exactly one in
\* place whenever nameOverride is present, the empty string included.
NameOverrideLineWheneverPresent ==
  \A a \in MainWrites :
    LET doc == specs[log[a].n]
    IN  IF "nameOverride" \in doc.has
          THEN OneNameOverrideLineInPlace(log[a].data)
          ELSE LinesWith(log[a].data, "name_override = ") = {}

\* C4 as amended: no name_override line when nameOverride is absent or the
\* empty string; exactly one, after the env line and before the
\* engine_version line and carrying the value, when it is a non-empty string.
NameOverrideLineWhenNonEmpty ==
  \A a \in MainWrites :
    LET doc == specs[log[a].n]
    IN  IF "nameOverride" \in doc.has /\ doc.nameOverride # ""
          THEN /\ OneNameOverrideLineInPlace(log[a].data)
               /\ \A j \in LinesWith(log[a].data, "name_override = ") :
                    log[a].data[j].toks = <<"name_override = ", doc.nameOverride>>
          ELSE LinesWith(log[a].data, "name_override = ") = {}

\* C4 witness: main.tf written for a document with a non-empty nameOverride.
NameOverrideWitness ==
  \E a \in MainWrites :
    /\ "nameOverride" \in specs[log[a].n].has
    /\ specs[log[a].n].nameOverride = "santa-db"
    /\ text[log[a].path] = log[a].data

WithoutRules(doc) == [doc EXCEPT !.has = @ \ {"extraSGRules"}, !.extraSGRules = <<>>]

WithEmptyRules(doc) == [doc EXCEPT !.has = @ \cup {"extraSGRules"}, !.extraSGRules = <<>>]

\* C5: the main.tf written for a document without extraSGRules, or with the
\* empty list, is the module text of both documents that differ only in
\* that, and holds no extra_sg_rules assignment.
AbsentAndEmptyRulesRenderAlike ==
  \A a \in MainWrites :
    LET doc == specs[log[a].n]
    IN  ("extraSGRules" \notin doc.has \/ doc.extraSGRules = <<>>) =>
          /\ log[a].data = rdsFileTemplate(WithoutRules(doc))
          /\ log[a].data = rdsFileTemplate(WithEmptyRules(doc))
          /\ LinesWith(log[a].data, "extra_sg_rules = [") = {}

\* C5 witness: main.tf written for a document whose extraSGRules is [].
EmptyRulesWitness ==
  \E a \in MainWrites :
    /\ "extraSGRules" \in specs[log[a].n].has
    /\ specs[log[a].n].extraSGRules = <<>>
    /\ text[log[a].path] = log[a].data

\* A required property is absent from the document.
LacksRequired(doc) ==
  \/ RequiredFields \ doc.has # {}
  \/ "vault" \in doc.has /\ VaultKeys \ doc.vault.has # {}
  \/ /\ "extraSGRules" \in doc.has
     /\ \E k \in 1..Len(doc.extraSGRules) : RequiredRuleFields \ doc.extraSGRules[k].has # {}

\* instances, vault or a rule's cidrBlocks is absent from the document.
LacksStructure(doc) ==
  \/ {"instances", "vault"} \ doc.has # {}
  \/ /\ "extraSGRules" \in doc.has
     /\ \E k \in 1..Len(doc.extraSGRules) : "cidrBlocks" \notin doc.extraSGRules[k].has

HasUndefined(str) == \E j \in DOMAIN str : \E t \in DOMAIN str[j].toks : str[j].toks[t] = "undefined"

\* C7 as stated: the rendering never fails for a document that lacks a
\* required property, and such a document, once its iteration has finished,
\* has both outputs written and its input removed.
AbsentFieldNeverAnError ==
  \A k \in 1..Len(specs) :
    LacksRequired(specs[k]) =>
      /\ \A a \in Failures : ~(log[a].n = k /\ log[a].op = "rdsFileTemplate")
      /\ k \in Finished =>
           /\ Done("writeFile", ConfigPath(targetDir(specs[k])), k) # {}
           /\ Done("writeFile", MainPath(targetDir(specs[k])), k) # {}
           /\ detectedFilePaths[k] \in removed

\* C7 as amended: a document that lacks region, project, component, env,
\* engineVersion, a vault key or a rule's description, fromPort or toPort (and
\* holds instances, vault and every rule's cidrBlocks) is no error: nothing
\* but an operation on the working tree can fail for it, and once its
\* iteration has finished both outputs are written with "undefined" for the
\* absent value and the input is removed.  A document that lacks instances,
\* vault or a rule's cidrBlocks fails in the rendering of main.tf, after
\* config.tf was written: main.tf is never written and the input is never
\* removed.
AbsentScalarNeverAnError ==
  \A k \in 1..Len(specs) :
    LET doc == specs[k]
        d == targetDir(doc)
    IN  LacksRequired(doc) =>
          IF LacksStructure(doc)
            THEN /\ k \notin Finished
                 /\ detectedFilePaths[k] \notin removed
                 /\ \A a \in DOMAIN log : ~(log[a].n = k /\ log[a].op = "writeFile" /\ log[a].path = MainPath(d))
                 /\ pc # "rm"
                 /\ \A a \in Failures :
                      (log[a].n = k /\ log[a].op = "rdsFileTemplate") =>
                        \E c \in Done("writeFile", ConfigPath(d), k) : c < a
            ELSE /\ \A a \in Failures : ~(log[a].n = k /\ log[a].op = "rdsFileTemplate")
                 /\ k \in Finished =>
                      /\ \E a \in Done("writeFile", ConfigPath(d), k) :
                           \E b \in Done("writeFile", MainPath(d), k) :
                             /\ log[a].data = configFileTemplate(doc)
                             /\ log[b].data = rdsFileTemplate(doc)
                             /\ HasUndefined(log[a].data) \/ HasUndefined(log[b].data)
                      /\ detectedFilePaths[k] \in removed

\* C7 witness: a document without region was placed and its input removed.
AbsentScalarWitness ==
  /\ Len(specs) = 1
  /\ "region" \notin specs[1].has
  /\ 1 \in Finished
  /\ HasUndefined(text[ConfigPath(targetDir(specs[1]))])

\* C7 witness of the other case: the rendering failed for a document
\* without instances.
AbsentStructureWitness ==
  /\ Len(specs) = 1
  /\ "instances" \notin specs[1].has
  /\ pc = "rejected"
  /\ log[Len(log)].op = "rdsFileTemplate"

\* What the successful operations for the k-th detected file were, in order.
StepsOf(k) ==
  LET evs == SelectSeq(log, LAMBDA e : e.n = k /\ e.ok)
  IN  [j \in 1..Len(evs) |-> IF evs[j].op = "writeFile" THEN evs[j].path.base ELSE evs[j].op]

IsPrefix(s, t) == Len(s) <= Len(t) /\ \A j \in 1..Len(s) : s[j] = t[j]

Qualifies(file) ==
  /\ file.status = "added"
  /\ Len(file.filename.dir) >= 2
  /\ file.filename.dir[1] = <<"infra-requests">>
  /\ file.filename.dir[2] = <<"rds">>
  /\ file.filename.ext \in {"yaml", "yml"}

PathsOf(op) ==
  LET evs == SelectSeq(log, LAMBDA e : e.op = op /\ e.ok)
  IN  [j \in 1..Len(evs) |-> evs[j].path]

\* What C9 says of the files that qualify, whichever way the others fare:
\* the detected files are the qualifying files in the order of the
\* comparison, they are read and removed in that order, only they are read
\* or removed, and when the loop has ended each of them was read, placed
\* and removed.
QualifyingAreProcessed ==
  LET q == SelectSeq(files, Qualifies)
  IN  /\ detectedFilePaths = [j \in 1..Len(q) |-> q[j].filename]
      /\ IsPrefix(PathsOf("readFile"), detectedFilePaths)
      /\ IsPrefix(PathsOf("rm"), detectedFilePaths)
      /\ \A a \in DOMAIN log :
           log[a].op \in {"readFile", "rm"} =>
             \E k \in DOMAIN files : Qualifies(files[k]) /\ files[k].filename = log[a].path
      /\ (pc \in {"reviewers", "git_add", "git_commit", "git_push", "pr_create", "resolved"}) =>
           /\ PathsOf("readFile") = detectedFilePaths
           /\ PathsOf("rm") = detectedFilePaths
           /\ \A k \in DOMAIN detectedFilePaths :
                /\ Done("writeFile", ConfigPath(targetDir(specs[k])), k) # {}
                /\ Done("writeFile", MainPath(targetDir(specs[k])), k) # {}

\* C9 as stated: besides, a changed file that does not qualify is never
\* read, written or removed.
OnlyQualifyingAreTouched ==
  /\ QualifyingAreProcessed
  /\ \A k \in DOMAIN files :
       ~Qualifies(files[k]) =>
         \A a \in DOMAIN log :
           ~(log[a].path = files[k].filename /\ log[a].op \in {"readFile", "writeFile", "rm"})

\* C9 as amended: besides, a changed file that does not qualify is never
\* read or removed, and it is written only as the config.tf or main.tf of
\* the target directory of a detected file that is being placed.
OnlyQualifyingAreInputs ==
  /\ QualifyingAreProcessed
  /\ \A k \in DOMAIN files :
       ~Qualifies(files[k]) =>
         \A a \in DOMAIN log :
           log[a].path = files[k].filename =>
             /\ log[a].op = "writeFile"
             /\ log[a].n \in DOMAIN detectedFilePaths
             /\ log[a].path \in {ConfigPath(targetDir(specs[log[a].n])), MainPath(targetDir(specs[log[a].n]))}

\* C9 witness: the loop has ended for a comparison that reports a file that
\* qualifies and one that does not, and the one that qualifies was processed.
FilterWitness ==
  /\ pc = "reviewers"
  /\ Len(files) = 2
  /\ Len(detectedFilePaths) = 1
  /\ detectedFilePaths[1] \in removed

====
